---- MODULE Spec2Model ----
(***************************************************************************)
(* Repetition-detection engine of the Recovery Coach / Parmi pages.        *)
(*                                                                         *)
(* The repository holds the same engine four times:                        *)
(*   part_000  src/unnamed/part_000          (single page, tile grid)      *)
(*   part_001  src/unnamed/part_001          (selection page added)        *)
(*   script_1  src/script.js lines 1-340     (beats and BPM)               *)
(*   script_2  src/script.js lines 341-673   (painting, two-part sounds)   *)
(* The variable `variant` says which of them a behaviour runs; it is       *)
(* chosen in Init and never changes.                                       *)
(*                                                                         *)
(* Units: angles are whole degrees, times are milliseconds.  The source    *)
(* computes on IEEE doubles; here a product or quotient is rounded to the  *)
(* nearest whole degree (RoundDiv).                                        *)
(***************************************************************************)
EXTENDS Integers, Sequences, FiniteSets, TLC

VARIABLES
    variant,            \* which of the four engines runs
    page,               \* "selection" | "exercise": the page on display
    running,            \* state.running
    reps,               \* state.reps
    goal,               \* state.goal
    neutralAngleDeg,    \* state.neutralAngleDeg
    filteredAngleDeg,   \* state.filteredAngleDeg
    thresholdDeg,       \* state.thresholdDeg
    phase,              \* state.phase: "neutral" | "bent"
    lastPeakTs,         \* state.lastPeakTs
    latestOrientation,  \* single-slot cache [beta, has]
    latestAccel,        \* single-slot cache [y, z, has] (x is stored, never read)
    targetValue,        \* elTarget.value, as Number() reads it
    thresholdValue,     \* elThreshold.value, as Number() reads it
    selectedIntensity,  \* the intensity dropdown: "" | "light" | "moderate" | "vigorous"
    calWindows,         \* in-flight calibration windows, each [collected, sum]
    now,                \* timestamp of the latest animation frame
    frames,             \* how many animation frames have run
    lastEvent,          \* history: what the latest processAngle call did
    lastRepTs,          \* history: timestamp of the latest counted rep while it is
                        \* less than minRepMs old, -1 otherwise
    fed,                \* history: how many samples of Scenario have been fed, -1 if off it
    resolved,           \* history: what estimateTiltDeg() returned when it was last
                        \* called on its own, Null before
    delivered,          \* history: the latest numeric beta the host delivered, Null before
    motionActive,       \* what updateMotionStatus last showed (part_001: motionActive)
    lastMotionTime,     \* Date.now() of the latest accepted sensor event (part_001:
                        \* lastMotionTime; in the other engines a history variable)
    clock,              \* Date.now()
    pollAt,             \* when the motion-status interval fires next
    batchStartTime,     \* script.js first engine: start of the current batch of beats
    latestBPM,          \* script.js first engine: latestBPM
    lastSound,          \* history: the sound of the latest beat since the last reset,
                        \* "none" if there was no beat
    paintingIndex,      \* script.js second engine: n of paint<n>.jpg on display
    paintingComplete    \* script.js second engine: the progress text reads "Complete!"

vars == << variant, page, running, reps, goal, neutralAngleDeg, filteredAngleDeg,
           thresholdDeg, phase, lastPeakTs, latestOrientation, latestAccel,
           targetValue, thresholdValue, selectedIntensity, calWindows, now,
           frames, lastEvent, lastRepTs, fed, resolved, delivered, motionActive,
           lastMotionTime, clock, pollAt, batchStartTime, latestBPM, lastSound,
           paintingIndex, paintingComplete >>

\* the history variables
hist == << lastEvent, lastRepTs, fed, resolved, delivered >>

\* the motion-status indicator and its clock
motion == << motionActive, lastMotionTime, clock, pollAt >>

\* the beat and tempo feedback
bpm == << batchStartTime, latestBPM, lastSound >>

\* the painting that fills in with the reps
painting == << paintingIndex, paintingComplete >>

-----------------------------------------------------------------------------
(* Values *)

\* A non-finite double (NaN); every arithmetic operation on it yields it.
NaN == 99999
\* A value whose typeof is not 'number' (null or undefined).
Null == 88888

IsNumber(v) == v # Null
IsFinite(v) == v # NaN /\ v # Null

Min(a, b) == IF a <= b THEN a ELSE b
Max(a, b) == IF a >= b THEN a ELSE b
Abs(a) == IF a = NaN THEN NaN ELSE IF a < 0 THEN -a ELSE a
Sub(a, b) == IF a = NaN \/ b = NaN THEN NaN ELSE a - b
Add(a, b) == IF a = NaN \/ b = NaN THEN NaN ELSE a + b
\* a >= b and a <= b on doubles: false when either side is NaN
Geq(a, b) == a # NaN /\ b # NaN /\ a >= b
Leq(a, b) == a # NaN /\ b # NaN /\ a <= b

\* n / d rounded to the nearest integer, halves away from zero (d > 0)
RoundDiv(n, d) == IF n >= 0 THEN (2 * n + d) \div (2 * d)
                            ELSE -((2 * (-n) + d) \div (2 * d))

-----------------------------------------------------------------------------
(* Program constants *)

hysteresisDeg == 6
minRepMs == 400
\* alpha = 0.12 = alphaNum / alphaDen
alphaNum == 12
alphaDen == 100
sampleCount == 24
DefaultGoal == 30
DefaultThreshold == 30
MinGoal == 1
MaxGoal == 200
MinThreshold == 10
MaxThreshold == 60
Script1InitGoal == 30
Script2InitGoal == 20
motionTimeoutMs == 2000
motionPollMs == 1000
repsInBatch == 30

Variants == {"part_000", "part_001", "script_1", "script_2"}
HasInputs(v) == v \in {"part_000", "part_001"}
HasSelection(v) == v \in {"part_001", "script_1", "script_2"}

\* intensityData[i].reps
intensityReps(v, i) ==
    IF v = "script_2"
    THEN CASE i = "light" -> 10 [] i = "moderate" -> 20 [] OTHER -> 50
    ELSE CASE i = "light" -> 10 [] i = "moderate" -> 15 [] OTHER -> 30

-----------------------------------------------------------------------------
(* Bounds of the model *)

\* animation frames in a behaviour of Spec
MaxFrames == 6
\* calibration windows in flight at once
MaxWindows == 2
\* how far Date.now() runs in a behaviour of SpecMotion, ms
MaxClockMs == 4000
\* how long the samples of SpecBeat and SpecPaint run, ms: 51 bend-and-return
\* cycles
MaxBeatMs == 20400

\* time between two animation frames, ms
TickDts == {100, 200}
\* DeviceOrientationEvent.beta values the host delivers
OrientationBetas == {-180, 180, Null}
\* DeviceMotionEvent.accelerationIncludingGravity values the host delivers
NoAccG == [y |-> Null, z |-> Null, none |-> TRUE]
AccelSamples == {NoAccG,
                 [y |-> 1, z |-> 1, none |-> FALSE],
                 [y |-> NaN, z |-> 1, none |-> FALSE]}
\* what the target and threshold inputs may hold, as Number() reads them
\* (NaN: not numeric)
TargetInputs == {1, 2}
ThresholdInputs == {NaN, 10}
Intensities == {"light"}
\* raw values of the two inputs: not numeric, empty, below, inside and above
\* the range
RawTargetInputs == {NaN, 0, -5, 1, 200, 500}
RawThresholdInputs == {NaN, 0, 5, 10, 60, 100}

-----------------------------------------------------------------------------
(* Pure functions *)

\* Number(el.value) || dflt
NumberOr(v, dflt) == IF v = NaN \/ v = 0 THEN dflt ELSE v

\* Math.max(lo, Math.min(hi, x))
Clamp(lo, hi, x) == Max(lo, Min(hi, x))

clampGoal(v) == Clamp(MinGoal, MaxGoal, NumberOr(v, DefaultGoal))
\* a threshold clamp without its floor
clampThresholdNoFloor(v) == Min(MaxThreshold, NumberOr(v, DefaultThreshold))

clampThreshold(v) == Clamp(MinThreshold, MaxThreshold, NumberOr(v, DefaultThreshold))

lowPassFilter(prev, next, aNum, aDen) ==
    IF prev = NaN \/ next = NaN THEN NaN
    ELSE prev + RoundDiv(aNum * (next - prev), aDen)

\* Math.atan2(y, z) * (180 / Math.PI) for y, z in {-1, 0, 1}; null coerces to 0
ToNumber(v) == IF v = Null THEN 0 ELSE v
Atan2Deg(y0, z0) ==
    LET y == ToNumber(y0)
        z == ToNumber(z0)
    IN  IF y = NaN \/ z = NaN THEN NaN
        ELSE CASE y = 0 /\ z >= 0 -> 0
               [] y = 0 /\ z < 0  -> 180
               [] y > 0 /\ z > 0  -> 45
               [] y > 0 /\ z = 0  -> 90
               [] y > 0 /\ z < 0  -> 135
               [] y < 0 /\ z > 0  -> -45
               [] y < 0 /\ z = 0  -> -90
               [] OTHER           -> -135

\* a resolver that returns beta as it is
estimateTiltDegNoWrap(o, a) ==
    IF o.has /\ IsFinite(o.beta) THEN o.beta
    ELSE IF a.has THEN Atan2Deg(a.y, a.z)
    ELSE 0

\* a resolver that prefers the acceleration reading
estimateTiltDegAccelFirst(o, a) ==
    IF a.has THEN Atan2Deg(a.y, a.z)
    ELSE IF o.has /\ IsFinite(o.beta)
    THEN LET b1 == IF o.beta > 180 THEN o.beta - 360 ELSE o.beta
             b2 == IF b1 < -180 THEN b1 + 360 ELSE b1
         IN  b2
    ELSE 0

estimateTiltDeg(o, a) ==
    IF o.has /\ IsFinite(o.beta)
    THEN LET b1 == IF o.beta > 180 THEN o.beta - 360 ELSE o.beta
             b2 == IF b1 < -180 THEN b1 + 360 ELSE b1
         IN  b2
    ELSE IF a.has THEN Atan2Deg(a.y, a.z)
    ELSE 0

\* Math.abs(angleDeg - state.neutralAngleDeg)
absRelOf(angleDeg, neutral) == Abs(Sub(angleDeg, neutral))

\* the session fields processAngle and the reset handlers write
Session == [phase |-> phase, reps |-> reps, lastPeakTs |-> lastPeakTs]

Outcome(ph, r, ts, ev) == [phase |-> ph, reps |-> r, lastPeakTs |-> ts, event |-> ev]

\* a detector that stays Bent while the debounce interval runs
processAngleDeferred(s, g, thr, neutral, angleDeg, timestampMs) ==
    LET absRel == absRelOf(angleDeg, neutral)
    IN  IF s.phase = "neutral"
        THEN IF Geq(absRel, thr)
             THEN Outcome("bent", s.reps, s.lastPeakTs, "bend")
             ELSE Outcome(s.phase, s.reps, s.lastPeakTs, "idle")
        ELSE IF Leq(absRel, hysteresisDeg)
             THEN IF timestampMs - s.lastPeakTs >= minRepMs
                  THEN Outcome("neutral", Min(g, s.reps + 1), timestampMs, "count")
                  ELSE Outcome("bent", s.reps, s.lastPeakTs, "drop")
             ELSE Outcome(s.phase, s.reps, s.lastPeakTs, "hold")

\* a detector without the minRepMs debounce
processAngleNoDebounce(s, g, thr, neutral, angleDeg, timestampMs) ==
    LET absRel == absRelOf(angleDeg, neutral)
    IN  IF s.phase = "neutral"
        THEN IF Geq(absRel, thr)
             THEN Outcome("bent", s.reps, s.lastPeakTs, "bend")
             ELSE Outcome(s.phase, s.reps, s.lastPeakTs, "idle")
        ELSE IF Leq(absRel, hysteresisDeg)
             THEN IF TRUE
                  THEN Outcome("neutral", Min(g, s.reps + 1), timestampMs, "count")
                  ELSE Outcome("neutral", s.reps, s.lastPeakTs, "drop")
             ELSE Outcome(s.phase, s.reps, s.lastPeakTs, "hold")

\* a detector whose return band is the bend threshold
processAngleNoHysteresis(s, g, thr, neutral, angleDeg, timestampMs) ==
    LET absRel == absRelOf(angleDeg, neutral)
    IN  IF s.phase = "neutral"
        THEN IF Geq(absRel, thr)
             THEN Outcome("bent", s.reps, s.lastPeakTs, "bend")
             ELSE Outcome(s.phase, s.reps, s.lastPeakTs, "idle")
        ELSE IF absRel # NaN /\ absRel < thr
             THEN IF timestampMs - s.lastPeakTs >= minRepMs
                  THEN Outcome("neutral", Min(g, s.reps + 1), timestampMs, "count")
                  ELSE Outcome("neutral", s.reps, s.lastPeakTs, "drop")
             ELSE Outcome(s.phase, s.reps, s.lastPeakTs, "hold")

\* a detector that leaves the phase Bent when it counts
processAngleStaysBent(s, g, thr, neutral, angleDeg, timestampMs) ==
    LET absRel == absRelOf(angleDeg, neutral)
    IN  IF s.phase = "neutral"
        THEN IF Geq(absRel, thr)
             THEN Outcome("bent", s.reps, s.lastPeakTs, "bend")
             ELSE Outcome(s.phase, s.reps, s.lastPeakTs, "idle")
        ELSE IF Leq(absRel, hysteresisDeg)
             THEN IF timestampMs - s.lastPeakTs >= minRepMs
                  THEN Outcome("bent", Min(g, s.reps + 1), timestampMs, "count")
                  ELSE Outcome("neutral", s.reps, s.lastPeakTs, "drop")
             ELSE Outcome(s.phase, s.reps, s.lastPeakTs, "hold")

\* processAngle(angleDeg, timestampMs) on the session s, with goal g, threshold thr
\* and baseline neutral: the session after the call and what the call did:
\*   "idle"  phase neutral, below the threshold        "bend"  neutral -> bent
\*   "hold"  phase bent, above the hysteresis band
\*   "count" bent -> neutral, rep counted               "drop"  bent -> neutral, no rep
\* a detector that stamps lastPeakTs when the bend is entered
processAngleStampsBend(s, g, thr, neutral, angleDeg, timestampMs) ==
    LET absRel == absRelOf(angleDeg, neutral)
    IN  IF s.phase = "neutral"
        THEN IF Geq(absRel, thr)
             THEN Outcome("bent", s.reps, timestampMs, "bend")
             ELSE Outcome(s.phase, s.reps, s.lastPeakTs, "idle")
        ELSE IF Leq(absRel, hysteresisDeg)
             THEN IF timestampMs - s.lastPeakTs >= minRepMs
                  THEN Outcome("neutral", Min(g, s.reps + 1), timestampMs, "count")
                  ELSE Outcome("neutral", s.reps, s.lastPeakTs, "drop")
             ELSE Outcome(s.phase, s.reps, s.lastPeakTs, "hold")

processAngle(s, g, thr, neutral, angleDeg, timestampMs) ==
    LET absRel == absRelOf(angleDeg, neutral)
    IN  IF s.phase = "neutral"
        THEN IF Geq(absRel, thr)
             THEN Outcome("bent", s.reps, s.lastPeakTs, "bend")
             ELSE Outcome(s.phase, s.reps, s.lastPeakTs, "idle")
        ELSE IF Leq(absRel, hysteresisDeg)
             THEN IF timestampMs - s.lastPeakTs >= minRepMs
                  THEN Outcome("neutral", Min(g, s.reps + 1), timestampMs, "count")
                  ELSE Outcome("neutral", s.reps, s.lastPeakTs, "drop")
             ELSE Outcome(s.phase, s.reps, s.lastPeakTs, "hold")

\* does reset / back-to-selection write lastPeakTs = 0 in this variant?
resetsLastPeak(v) == v # "script_2"

\* a reset that forgets to leave Bent
resetSessionKeepsPhase(v, s) ==
    [phase |-> s.phase, reps |-> 0,
     lastPeakTs |-> IF resetsLastPeak(v) THEN 0 ELSE s.lastPeakTs]

\* a reset that backdates lastPeakTs so that the next rep is never debounced
resetSessionBackdates(v, s) ==
    [phase |-> "neutral", reps |-> 0, lastPeakTs |-> s.lastPeakTs - minRepMs]

\* the session after the reset handler (and after showSelectionPage)
resetSession(v, s) ==
    [phase |-> "neutral", reps |-> 0,
     lastPeakTs |-> IF resetsLastPeak(v) THEN 0 ELSE s.lastPeakTs]

-----------------------------------------------------------------------------
(* Initial state: the state object, then init() *)

InitGoal(v, tv) ==
    CASE v = "script_1" -> Script1InitGoal
      [] v = "script_2" -> Script2InitGoal
      [] OTHER -> NumberOr(tv, DefaultGoal)

InitThreshold(v, hv) ==
    IF HasInputs(v) THEN NumberOr(hv, DefaultThreshold) ELSE DefaultThreshold

\* the state object, the input elements holding values of TI and HI
InitEngineWith(TI, HI) ==
    /\ targetValue \in (IF HasInputs(variant) THEN TI ELSE {NaN})
    /\ thresholdValue \in (IF HasInputs(variant) THEN HI ELSE {NaN})
    /\ page = IF HasSelection(variant) THEN "selection" ELSE "exercise"
    /\ running = FALSE
    /\ reps = 0
    /\ goal = InitGoal(variant, targetValue)
    /\ neutralAngleDeg = 0
    /\ filteredAngleDeg = 0
    /\ thresholdDeg = InitThreshold(variant, thresholdValue)
    /\ phase = "neutral"
    /\ lastPeakTs = 0
    /\ latestOrientation = [beta |-> 0, has |-> FALSE]
    /\ latestAccel = [y |-> 0, z |-> 0, has |-> FALSE]
    /\ selectedIntensity = ""
    /\ calWindows = << >>
    /\ now = 0
    /\ frames = 0
    /\ lastEvent = "none"
    /\ lastRepTs = -1
    /\ resolved = Null
    /\ delivered = Null
    /\ motionActive = FALSE
    /\ lastMotionTime = 0
    /\ clock = 0
    /\ pollAt = motionPollMs
    /\ batchStartTime = 0
    /\ latestBPM = 0
    /\ lastSound = "none"
    /\ paintingIndex = 0
    /\ paintingComplete = FALSE

InitEngine == InitEngineWith(TargetInputs, ThresholdInputs)

Init ==
    /\ variant \in Variants
    /\ InitEngine
    /\ fed = -1

-----------------------------------------------------------------------------
(* Sensor events: the host writes the single-slot caches *)

onOrientation(v, run, o, beta) ==
    IF (v = "part_000" \/ v = "script_2") /\ ~run THEN o
    ELSE IF v = "script_1" THEN o
    ELSE IF IsNumber(beta) THEN [beta |-> beta, has |-> TRUE]
    ELSE o

onMotion(v, run, a, accG) ==
    IF (v = "part_000" \/ v = "script_2") /\ ~run THEN a
    ELSE IF v = "script_1" THEN a
    ELSE IF accG.none THEN a
    ELSE IF v = "script_2" THEN [y |-> accG.y, z |-> accG.z, has |-> TRUE]
    ELSE IF IsNumber(accG.y) /\ IsNumber(accG.z)
         THEN [y |-> accG.y, z |-> accG.z, has |-> TRUE]
    ELSE a

\* does the handler store this orientation event / this motion event?
orientationAccepted(v, run, beta) ==
    /\ ~((v = "part_000" \/ v = "script_2") /\ ~run)
    /\ v # "script_1"
    /\ IsNumber(beta)

motionAccepted(v, run, accG) ==
    /\ ~((v = "part_000" \/ v = "script_2") /\ ~run)
    /\ v # "script_1"
    /\ ~accG.none
    /\ v = "script_2" \/ (IsNumber(accG.y) /\ IsNumber(accG.z))

\* part_001, inside the handlers: lastMotionTime = Date.now(); if (!motionActive)
\* { motionActive = true; updateMotionStatus(true); }.  The other engines have
\* no such lines: there lastMotionTime only records when the event came.
noteMotion(accepted) ==
    /\ lastMotionTime' = IF accepted THEN clock ELSE lastMotionTime
    /\ motionActive' = IF accepted /\ variant = "part_001" THEN TRUE ELSE motionActive
    /\ UNCHANGED << clock, pollAt >>

OnOrientation(beta) ==
    /\ latestOrientation' = onOrientation(variant, running, latestOrientation, beta)
    /\ noteMotion(orientationAccepted(variant, running, beta))
    /\ UNCHANGED << variant, page, running, reps, goal, neutralAngleDeg,
                    filteredAngleDeg, thresholdDeg, phase, lastPeakTs, latestAccel,
                    targetValue, thresholdValue, selectedIntensity, calWindows, now, frames,
                    hist, bpm, painting >>

OnMotion(accG) ==
    /\ latestAccel' = onMotion(variant, running, latestAccel, accG)
    /\ noteMotion(motionAccepted(variant, running, accG))
    /\ UNCHANGED << variant, page, running, reps, goal, neutralAngleDeg,
                    filteredAngleDeg, thresholdDeg, phase, lastPeakTs,
                    latestOrientation, targetValue, thresholdValue,
                    selectedIntensity, calWindows, now, frames, hist, bpm, painting >>

\* the host delivers an orientation event; the history remembers its beta
DeliverOrientation(beta) ==
    /\ latestOrientation' = onOrientation(variant, running, latestOrientation, beta)
    /\ noteMotion(orientationAccepted(variant, running, beta))
    /\ delivered' = IF IsNumber(beta) THEN beta ELSE delivered
    /\ UNCHANGED << variant, page, running, reps, goal, neutralAngleDeg,
                    filteredAngleDeg, thresholdDeg, phase, lastPeakTs, latestAccel,
                    targetValue, thresholdValue, selectedIntensity, calWindows, now, frames,
                    lastEvent, lastRepTs, fed, resolved, bpm, painting >>

\* Date.now() advances, in part_001 never past the next firing of the status
\* interval
Elapse(dt) ==
    /\ clock + dt <= MaxClockMs
    /\ variant = "part_001" => clock + dt <= pollAt
    /\ clock' = clock + dt
    /\ UNCHANGED << variant, page, running, reps, goal, neutralAngleDeg,
                    filteredAngleDeg, thresholdDeg, phase, lastPeakTs, latestOrientation,
                    latestAccel, targetValue, thresholdValue, selectedIntensity,
                    calWindows, now, frames, hist, motionActive, lastMotionTime, pollAt,
                    bpm, painting >>

\* the setInterval callback of part_001; the other engines register none
PollMotion ==
    /\ variant = "part_001"
    /\ clock = pollAt
    /\ pollAt' = pollAt + motionPollMs
    /\ motionActive' = IF clock - lastMotionTime > motionTimeoutMs /\ motionActive
                        THEN FALSE ELSE motionActive
    /\ UNCHANGED << variant, page, running, reps, goal, neutralAngleDeg,
                    filteredAngleDeg, thresholdDeg, phase, lastPeakTs, latestOrientation,
                    latestAccel, targetValue, thresholdValue, selectedIntensity,
                    calWindows, now, frames, hist, lastMotionTime, clock, bpm, painting >>

-----------------------------------------------------------------------------
(* The frame loop *)

\* does tick(ts) run the filter / the detector in this variant?
tickFilters(v, run) ==
    CASE v = "script_1" -> FALSE
      [] v = "part_001" -> TRUE
      [] OTHER -> run

\* a frame loop that runs the detector whether or not the session runs
tickDetectsAlways(v, run) == v # "script_1"

tickDetects(v, run) == v # "script_1" /\ run

\* JavaScript's %: the sign of the dividend
JsMod(a, n) == IF a >= 0 THEN a % n ELSE -((-a) % n)

Beat == [batchStartTime |-> batchStartTime, latestBPM |-> latestBPM,
         lastSound |-> lastSound]

\* playBeatAndCalcBPM(), called with state.reps = r at performance.now() = t
playBeatAndCalcBPM(r, t, b) ==
    LET sound == IF JsMod(r - 1, 2) = 0 THEN "sound1" ELSE "sound2"
        start == IF JsMod(r - 1, repsInBatch) = 0 THEN t ELSE b.batchStartTime
        elapsedMs == t - start
    IN  [batchStartTime |-> start,
         latestBPM |-> IF r > 0 /\ JsMod(r, repsInBatch) = 0 /\ elapsedMs > 0
                       THEN RoundDiv(repsInBatch * 60000, elapsedMs)
                       ELSE b.latestBPM,
         lastSound |-> sound]

\* the beat feedback after a processAngle call: only the first engine of
\* script.js has it, inside the branch that counts
beatAfter(v, event, r, t, b) ==
    IF v = "script_1" /\ event = "count" THEN playBeatAndCalcBPM(r, t, b) ELSE b

\* elReset and showSelectionPage, first engine of script.js: the tempo restarts
\* (the history forgets the beat played before the reset)
beatReset(v, b) ==
    IF v = "script_1"
    THEN [batchStartTime |-> 0, latestBPM |-> 0, lastSound |-> "none"]
    ELSE b

Painting == [imageIndex |-> paintingIndex, complete |-> paintingComplete]
paintingImages == 20

\* a painting that never shows the final image of a goal above 20
updatePaintingNoFinal(r, g) ==
    LET currentRep == Min(r, g)
    IN  [imageIndex |-> IF g <= paintingImages THEN Min(currentRep, paintingImages)
                        ELSE JsMod(currentRep, paintingImages),
         complete |-> r >= g]

\* updatePainting(), called with state.reps = r and state.goal = g
updatePainting(r, g) ==
    LET currentRep == Min(r, g)
    IN  [imageIndex |-> IF g <= paintingImages THEN Min(currentRep, paintingImages)
                        ELSE IF currentRep >= g THEN paintingImages
                        ELSE JsMod(currentRep, paintingImages),
         complete |-> r >= g]

\* the painting after a handler of engine v that ends with updatePainting()
repaint(v, r, g, p) == IF v = "script_2" THEN updatePainting(r, g) ELSE p

\* the painting after a processAngle call: only the second engine of script.js
\* has it, inside the branch that counts
paintAfter(v, event, r, g, p) ==
    IF event = "count" THEN repaint(v, r, g, p) ELSE p

\* setRunning(isRunning) of script.js ends with updateMotionStatus(isRunning)
statusAfterSetRunning(v, isRunning, shown) ==
    IF v \in {"script_1", "script_2"} THEN isRunning ELSE shown

\* history: the latest counted rep as seen at time ts
recentRep(event, ts, last) ==
    IF event = "count" THEN ts
    ELSE IF last >= 0 /\ ts - last < minRepMs THEN last
    ELSE -1

\* the body of tick(ts)
Frame(ts) ==
    /\ now' = ts
    /\ LET angle == estimateTiltDeg(latestOrientation, latestAccel)
           filtered == IF tickFilters(variant, running)
                       THEN lowPassFilter(filteredAngleDeg, angle, alphaNum, alphaDen)
                       ELSE filteredAngleDeg
           r == processAngle(Session, goal, thresholdDeg, neutralAngleDeg, filtered, ts)
       IN  /\ filteredAngleDeg' = filtered
           /\ IF tickDetects(variant, running)
              THEN /\ phase' = r.phase
                   /\ reps' = r.reps
                   /\ lastPeakTs' = r.lastPeakTs
                   /\ lastEvent' = r.event
                   /\ lastRepTs' = recentRep(r.event, ts, lastRepTs)
                   /\ LET b == beatAfter(variant, r.event, r.reps, ts, Beat)
                          p == paintAfter(variant, r.event, r.reps, goal, Painting)
                      IN  /\ batchStartTime' = b.batchStartTime
                          /\ latestBPM' = b.latestBPM
                          /\ lastSound' = b.lastSound
                          /\ paintingIndex' = p.imageIndex
                          /\ paintingComplete' = p.complete
              ELSE /\ lastRepTs' = recentRep("none", ts, lastRepTs)
                   /\ UNCHANGED << phase, reps, lastPeakTs, lastEvent, bpm, painting >>
    /\ UNCHANGED << variant, page, running, goal, neutralAngleDeg, thresholdDeg,
                    latestOrientation, latestAccel, targetValue, thresholdValue,
                    selectedIntensity, calWindows, fed, resolved, delivered, motion >>

\* requestAnimationFrame(tick), within the frame bound of Spec
Tick(dt) ==
    /\ frames < MaxFrames
    /\ frames' = frames + 1
    /\ Frame(now + dt)

-----------------------------------------------------------------------------
(* Calibration *)

\* a mean that divides by one sample too few
averageOffByOne(sum, n) == IF sum = NaN THEN NaN ELSE RoundDiv(sum, n - 1)

\* samples.reduce((a, b) => a + b, 0) / samples.length
average(sum, n) == IF sum = NaN THEN NaN ELSE RoundDiv(sum, n)

windowed(v) == v \in {"part_000", "part_001"}

\* a calibration that also puts the detector back in neutral
CalibrateInstantRecentres ==
    /\ page = "exercise"
    /\ ~windowed(variant)
    /\ neutralAngleDeg' = IF variant = "script_2" THEN filteredAngleDeg
                                                   ELSE neutralAngleDeg
    /\ phase' = "neutral"
    /\ UNCHANGED << variant, page, running, reps, goal, filteredAngleDeg, thresholdDeg,
                    lastPeakTs, latestOrientation, latestAccel, targetValue,
                    thresholdValue, selectedIntensity, calWindows, now, frames, hist,
                    motion, bpm, painting >>

\* elCalibrate click, script.js: the baseline becomes the filtered angle at once
\* (the handler of script_1 has an empty body)
CalibrateInstant ==
    /\ page = "exercise"
    /\ ~windowed(variant)
    /\ neutralAngleDeg' = IF variant = "script_2" THEN filteredAngleDeg
                                                   ELSE neutralAngleDeg
    /\ UNCHANGED << variant, page, running, reps, goal, filteredAngleDeg, thresholdDeg,
                    phase, lastPeakTs, latestOrientation, latestAccel, targetValue,
                    thresholdValue, selectedIntensity, calWindows, now, frames, hist, motion, bpm, painting >>

\* elCalibrate click, part_000 and part_001: a new window, whose first collect()
\* runs inside the click
CalibrateClick ==
    /\ page = "exercise"
    /\ windowed(variant)
    /\ Len(calWindows) < MaxWindows
    /\ calWindows' = Append(calWindows,
           [collected |-> 1,
            sum |-> Add(0, estimateTiltDeg(latestOrientation, latestAccel))])
    /\ UNCHANGED << variant, page, running, reps, goal, neutralAngleDeg,
                    filteredAngleDeg, thresholdDeg, phase, lastPeakTs,
                    latestOrientation, latestAccel, targetValue, thresholdValue,
                    selectedIntensity, now, frames, hist, motion, bpm, painting >>

RemoveAt(q, i) == SubSeq(q, 1, i - 1) \o SubSeq(q, i + 1, Len(q))

\* the setTimeout(collect, 12) callback of window i
CalibrateCollect(i) ==
    /\ i \in 1..Len(calWindows)
    /\ LET w == calWindows[i]
           angle == estimateTiltDeg(latestOrientation, latestAccel)
           collected == w.collected + 1
           sum == Add(w.sum, angle)
       IN  IF collected < sampleCount
           THEN /\ calWindows' = [calWindows EXCEPT ![i] =
                                      [collected |-> collected, sum |-> sum]]
                /\ UNCHANGED neutralAngleDeg
           ELSE /\ neutralAngleDeg' = average(sum, collected)
                /\ calWindows' = RemoveAt(calWindows, i)
    /\ UNCHANGED << variant, page, running, reps, goal, filteredAngleDeg, thresholdDeg,
                    phase, lastPeakTs, latestOrientation, latestAccel, targetValue,
                    thresholdValue, selectedIntensity, now, frames, hist, motion, bpm, painting >>

-----------------------------------------------------------------------------
(* Buttons and inputs of the exercise page *)

\* elStart click
StartClick ==
    /\ page = "exercise"
    /\ ~running
    /\ running' = TRUE
    /\ goal' = IF HasInputs(variant) THEN clampGoal(targetValue) ELSE goal
    /\ thresholdDeg' = IF HasInputs(variant) THEN clampThreshold(thresholdValue)
                                             ELSE thresholdDeg
    /\ motionActive' = statusAfterSetRunning(variant, TRUE, motionActive)
    /\ UNCHANGED << variant, page, reps, neutralAngleDeg, filteredAngleDeg, phase,
                    lastPeakTs, latestOrientation, latestAccel, targetValue,
                    thresholdValue, selectedIntensity, calWindows, now, frames, hist,
                    lastMotionTime, clock, pollAt, bpm, painting >>

\* elStop click
StopClick ==
    /\ page = "exercise"
    /\ running
    /\ running' = FALSE
    /\ motionActive' = statusAfterSetRunning(variant, FALSE, motionActive)
    /\ UNCHANGED << variant, page, reps, goal, neutralAngleDeg, filteredAngleDeg,
                    thresholdDeg, phase, lastPeakTs, latestOrientation, latestAccel,
                    targetValue, thresholdValue, selectedIntensity, calWindows, now, frames,
                    hist, lastMotionTime, clock, pollAt, bpm, painting >>

\* elReset click
ResetClick ==
    /\ page = "exercise"
    /\ LET s == resetSession(variant, Session)
       IN  /\ reps' = s.reps
           /\ phase' = s.phase
           /\ lastPeakTs' = s.lastPeakTs
    /\ LET b == beatReset(variant, Beat)
           p == repaint(variant, resetSession(variant, Session).reps, goal, Painting)
       IN  /\ batchStartTime' = b.batchStartTime
           /\ latestBPM' = b.latestBPM
           /\ lastSound' = b.lastSound
           /\ paintingIndex' = p.imageIndex
           /\ paintingComplete' = p.complete
    /\ UNCHANGED << variant, page, running, goal, neutralAngleDeg, filteredAngleDeg,
                    thresholdDeg, latestOrientation, latestAccel, targetValue,
                    thresholdValue, selectedIntensity, calWindows, now, frames, hist,
                    motion >>

\* state.goal after the elTarget change handler
targetChangeGoal(v, r) == clampGoal(v)

\* elTarget change
TargetChange(v) ==
    /\ page = "exercise"
    /\ HasInputs(variant)
    /\ targetValue' = v
    /\ goal' = targetChangeGoal(v, reps)
    /\ UNCHANGED << variant, page, running, reps, neutralAngleDeg, filteredAngleDeg,
                    thresholdDeg, phase, lastPeakTs, latestOrientation, latestAccel,
                    thresholdValue, selectedIntensity, calWindows, now, frames, hist, motion, bpm, painting >>

\* elThreshold input
ThresholdInput(v) ==
    /\ page = "exercise"
    /\ HasInputs(variant)
    /\ thresholdValue' = v
    /\ thresholdDeg' = clampThreshold(v)
    /\ UNCHANGED << variant, page, running, reps, goal, neutralAngleDeg,
                    filteredAngleDeg, phase, lastPeakTs, latestOrientation, latestAccel,
                    targetValue, selectedIntensity, calWindows, now, frames, hist, motion, bpm, painting >>

-----------------------------------------------------------------------------
(* Navigation *)

\* elIntensitySelect change
IntensityChange(i) ==
    /\ HasSelection(variant)
    /\ page = "selection"
    /\ selectedIntensity' = i
    /\ UNCHANGED << variant, page, running, reps, goal, neutralAngleDeg,
                    filteredAngleDeg, thresholdDeg, phase, lastPeakTs, latestOrientation,
                    latestAccel, targetValue, thresholdValue, calWindows, now, frames, hist, motion, bpm, painting >>

\* elStartExercise click: showExercisePage()
StartExerciseClick ==
    /\ HasSelection(variant)
    /\ page = "selection"
    /\ selectedIntensity # ""
    /\ page' = "exercise"
    /\ goal' = intensityReps(variant, selectedIntensity)
    /\ targetValue' = IF variant = "part_001"
                      THEN intensityReps(variant, selectedIntensity) ELSE targetValue
    /\ LET p == repaint(variant, reps, intensityReps(variant, selectedIntensity),
                        Painting)
       IN  /\ paintingIndex' = p.imageIndex
           /\ paintingComplete' = p.complete
    /\ UNCHANGED << variant, running, reps, neutralAngleDeg, filteredAngleDeg,
                    thresholdDeg, phase, lastPeakTs, latestOrientation, latestAccel,
                    thresholdValue, selectedIntensity, calWindows, now, frames, hist,
                    motion, bpm >>

\* elBackToSelection click: showSelectionPage()
BackToSelectionClick ==
    /\ HasSelection(variant)
    /\ page = "exercise"
    /\ page' = "selection"
    /\ running' = IF variant = "part_001" THEN running ELSE FALSE
    /\ LET s == resetSession(variant, Session)
       IN  /\ reps' = s.reps
           /\ phase' = s.phase
           /\ lastPeakTs' = s.lastPeakTs
    /\ LET b == beatReset(variant, Beat)
           p == repaint(variant, resetSession(variant, Session).reps, goal, Painting)
       IN  /\ batchStartTime' = b.batchStartTime
           /\ latestBPM' = b.latestBPM
           /\ lastSound' = b.lastSound
           /\ paintingIndex' = p.imageIndex
           /\ paintingComplete' = p.complete
    /\ motionActive' = IF variant = "part_001" THEN motionActive
                        ELSE statusAfterSetRunning(variant, FALSE, motionActive)
    /\ UNCHANGED << variant, goal, neutralAngleDeg, filteredAngleDeg, thresholdDeg,
                    latestOrientation, latestAccel, targetValue, thresholdValue,
                    selectedIntensity, calWindows, now, frames, hist, lastMotionTime,
                    clock, pollAt >>

-----------------------------------------------------------------------------
(* The detector and the session counter: every handler that reads or writes *)
(* the session, with orientation as the signal source.                      *)

Next ==
    \/ \E beta \in OrientationBetas : OnOrientation(beta)
    \/ \E dt \in TickDts : Tick(dt)
    \/ CalibrateInstant
    \/ StartClick
    \/ StopClick
    \/ ResetClick
    \/ \E v \in TargetInputs : TargetChange(v)
    \/ \E v \in ThresholdInputs : ThresholdInput(v)
    \/ \E i \in Intensities : IntensityChange(i)
    \/ StartExerciseClick
    \/ BackToSelectionClick

Spec == Init /\ [][Next]_vars

-----------------------------------------------------------------------------
(* processAngle driven directly: samples (timestampMs, angleDeg) with        *)
(* non-decreasing timestamps are fed to a fresh session.                     *)

Scenario == << [t |-> 0, a |-> 0], [t |-> 500, a |-> 35], [t |-> 900, a |-> 4],
               [t |-> 1000, a |-> 32], [t |-> 1150, a |-> 3], [t |-> 1400, a |-> 3] >>

SampleTimes == {Scenario[i].t : i \in 1..Len(Scenario)}
SampleAngles == {Scenario[i].a : i \in 1..Len(Scenario)} \cup {-35, 20}

InitPA ==
    /\ variant \in Variants
    /\ InitEngine
    /\ fed = 0

FeedSample(a, ts) ==
    /\ ts >= now
    /\ now' = ts
    /\ filteredAngleDeg' = a
    /\ LET r == processAngle(Session, goal, thresholdDeg, neutralAngleDeg, a, ts)
       IN  /\ phase' = r.phase
           /\ reps' = r.reps
           /\ lastPeakTs' = r.lastPeakTs
           /\ lastEvent' = r.event
           /\ lastRepTs' = recentRep(r.event, ts, lastRepTs)
           /\ LET b == beatAfter(variant, r.event, r.reps, ts, Beat)
                  p == paintAfter(variant, r.event, r.reps, goal, Painting)
              IN  /\ batchStartTime' = b.batchStartTime
                  /\ latestBPM' = b.latestBPM
                  /\ lastSound' = b.lastSound
                  /\ paintingIndex' = p.imageIndex
                  /\ paintingComplete' = p.complete
    /\ fed' = IF fed >= 0 /\ fed < Len(Scenario)
                 /\ Scenario[fed + 1] = [t |-> ts, a |-> a]
              THEN fed + 1 ELSE -1
    /\ UNCHANGED << variant, page, running, goal, neutralAngleDeg, thresholdDeg,
                    latestOrientation, latestAccel, targetValue, thresholdValue,
                    selectedIntensity, calWindows, frames, resolved, delivered, motion >>

NextPA == \E a \in SampleAngles, ts \in SampleTimes : FeedSample(a, ts)

SpecPA == InitPA /\ [][NextPA]_vars

-----------------------------------------------------------------------------
(* The configuration surface: the inputs hold any raw value, at load and     *)
(* afterwards; the frame loop runs on a still device.                        *)

InitCfg ==
    /\ variant \in Variants
    /\ InitEngineWith(RawTargetInputs, RawThresholdInputs)
    /\ fed = -1

NextCfg ==
    \/ \E dt \in TickDts : Tick(dt)
    \/ StartClick
    \/ StopClick
    \/ \E v \in RawTargetInputs : TargetChange(v)
    \/ \E v \in RawThresholdInputs : ThresholdInput(v)
    \/ \E i \in Intensities : IntensityChange(i)
    \/ StartExerciseClick
    \/ BackToSelectionClick

SpecCfg == InitCfg /\ [][NextCfg]_vars

-----------------------------------------------------------------------------
(* estimateTiltDeg() on its own: each sensor handler stores one reading,     *)
(* then the function is applied to the caches.                              *)

\* beta of the orientation events
TiltBetas == (-540..540) \cup {NaN}
\* y and z of the acceleration events
TiltGravity == {-1, 0, 1, NaN}
TiltAccG == {[y |-> y, z |-> z, none |-> FALSE] : y \in TiltGravity, z \in TiltGravity}

InitTilt ==
    /\ variant \in {"part_000", "part_001", "script_2"}
    /\ InitEngine
    /\ fed = -1

\* const angle = estimateTiltDeg()
ResolveTilt ==
    /\ resolved' = estimateTiltDeg(latestOrientation, latestAccel)
    /\ UNCHANGED << variant, page, running, reps, goal, neutralAngleDeg,
                    filteredAngleDeg, thresholdDeg, phase, lastPeakTs,
                    latestOrientation, latestAccel, targetValue, thresholdValue,
                    selectedIntensity, calWindows, now, frames, lastEvent, lastRepTs,
                    fed, delivered, motion, bpm, painting >>

NextTilt ==
    \/ /\ resolved = Null
       /\ \/ StartClick
          \/ ~latestOrientation.has /\ \E beta \in TiltBetas : OnOrientation(beta)
          \/ ~latestAccel.has /\ \E accG \in TiltAccG : OnMotion(accG)
    \/ ResolveTilt

SpecTilt == InitTilt /\ [][NextTilt]_vars

-----------------------------------------------------------------------------
(* The signal path: sensor events of both sources, valid and invalid, the   *)
(* frame loop, start and stop.                                              *)

\* beta of the orientation events: not finite, finite, not a number
SignalBetas == {NaN, -90, 90, Null}
\* time between two animation frames, ms
SignalDts == {100}

NextSignal ==
    \/ \E beta \in SignalBetas : DeliverOrientation(beta)
    \/ \E accG \in AccelSamples : OnMotion(accG)
    \/ \E dt \in SignalDts : Tick(dt)
    \/ StartClick
    \/ StopClick

SpecSignal == Init /\ [][NextSignal]_vars

-----------------------------------------------------------------------------
(* Windowed calibration (part_000, part_001): clicks open windows, the      *)
(* timers of the windows in flight interleave freely; the device is held    *)
(* still while a window collects.                                           *)

InitCal ==
    /\ variant \in {v \in Variants : windowed(v)}
    /\ InitEngine
    /\ fed = -1

NextCal ==
    \/ calWindows = << >> /\ \E beta \in OrientationBetas : OnOrientation(beta)
    \/ StartClick
    \/ StopClick
    \/ CalibrateClick
    \/ \E i \in 1..MaxWindows : CalibrateCollect(i)
    \/ \E i \in Intensities : IntensityChange(i)
    \/ StartExerciseClick

SpecCal == InitCal /\ [][NextCal]_vars

-----------------------------------------------------------------------------
(* Beats and tempo, first engine of script.js: processAngle driven directly  *)
(* (the tick of this engine has an empty body) while an exercise is on       *)
(* display, by a user who bends and returns in a steady rhythm; with reset   *)
(* and navigation.                                                           *)

\* time between two samples, ms
BeatDt == 200
\* the angle of the bend, the angle of the rest position
BeatAngles == [bent |-> 35, neutral |-> 0]
BeatIntensities == {"light", "vigorous"}

InitBeat ==
    /\ variant = "script_1"
    /\ InitEngine
    /\ fed = -1

\* the next sample: a bend when in neutral, the rest position when bent
BeatSample ==
    /\ page = "exercise"
    /\ now + BeatDt <= MaxBeatMs
    /\ FeedSample(IF phase = "neutral" THEN BeatAngles.bent ELSE BeatAngles.neutral,
                  now + BeatDt)

NextBeat ==
    \/ BeatSample
    \/ ResetClick
    \/ \E i \in BeatIntensities : IntensityChange(i)
    \/ StartExerciseClick
    \/ BackToSelectionClick

SpecBeat == InitBeat /\ [][NextBeat]_vars

\* the same rhythm, reset and navigation in the second engine of script.js,
\* whose painting follows the reps
InitPaint ==
    /\ variant = "script_2"
    /\ InitEngine
    /\ fed = -1

SpecPaint == InitPaint /\ [][NextBeat]_vars

-----------------------------------------------------------------------------
(* The motion-status indicator: sensor events, the wall clock, the status    *)
(* interval of part_001, start, stop and navigation.  part_000 has no        *)
(* indicator.                                                                *)

\* beta of the orientation events: a number, not a number
MotionBetas == {90, Null}
\* steps of the wall clock, ms
ClockDts == {500, 1000}

InitMotion ==
    /\ variant \in {"part_001", "script_1", "script_2"}
    /\ InitEngine
    /\ fed = -1

NextMotion ==
    \/ \E beta \in MotionBetas : OnOrientation(beta)
    \/ \E accG \in AccelSamples : OnMotion(accG)
    \/ \E dt \in ClockDts : Elapse(dt)
    \/ PollMotion
    \/ StartClick
    \/ StopClick
    \/ \E i \in Intensities : IntensityChange(i)
    \/ StartExerciseClick
    \/ BackToSelectionClick

SpecMotion == InitMotion /\ [][NextMotion]_vars

-----------------------------------------------------------------------------
(* One calibration at a time: a click only when no window is in flight, the  *)
(* device moving while the window collects.  The frame loop runs in the      *)
(* second script.js engine only, whose calibration reads the filtered angle; *)
(* the windows read the raw angle, which no tick writes.                     *)

InitCalOne ==
    /\ variant \in {"part_000", "part_001", "script_2"}
    /\ InitEngine
    /\ fed = -1

NextCalOne ==
    \/ \E beta \in OrientationBetas : OnOrientation(beta)
    \/ StartClick
    \/ calWindows = << >> /\ CalibrateClick
    \/ CalibrateCollect(1)
    \/ CalibrateInstant
    \/ variant = "script_2" /\ \E dt \in SignalDts : Tick(dt)
    \/ \E i \in Intensities : IntensityChange(i)
    \/ StartExerciseClick

SpecCalOne == InitCalOne /\ [][NextCalOne]_vars

-----------------------------------------------------------------------------
(* Properties *)

\* a step that runs one animation frame
TickStep == \E dt \in TickDts : Tick(dt)
\* ... in which processAngle is called
DetectStep == TickStep /\ tickDetects(variant, running)
\* ... and in which the rep-completed branch runs
CountStep == DetectStep /\ lastEvent' = "count"

\* |relative| as the processAngle call of the step sees it
absRelSeen == absRelOf(filteredAngleDeg', neutralAngleDeg)
InBand(x) == Leq(x, hysteresisDeg)
InGap(x) == x # NaN /\ hysteresisDeg < x /\ x < thresholdDeg
absRelNow == absRelOf(filteredAngleDeg, neutralAngleDeg)

\* C1: in every reachable state 0 <= reps <= goal.
C1_BoundedCount == 0 <= reps /\ reps <= goal

\* C2: only reset (or the back-to-selection reset) decreases reps: every other
\* step, a counting tick after the goal was lowered included, leaves reps at
\* least as large as it was.
C2_OnlyResetDecreases ==
    [][reps' < reps => (ResetClick \/ BackToSelectionClick)]_vars

ScenarioPre == thresholdDeg = 30 /\ goal >= 2 /\ neutralAngleDeg = 0

C5_SingleCountPerCycle ==
    [][/\ (reps' > reps
             => DetectStep /\ phase = "bent" /\ phase' = "neutral"
                /\ reps' = reps + 1)
       /\ (DetectStep /\ phase = "bent" /\ InBand(absRelSeen)
             /\ now' - lastPeakTs >= minRepMs /\ reps < goal
             => reps' = reps + 1 /\ phase' = "neutral")
       /\ (DetectStep /\ phase = "neutral" /\ InBand(absRelSeen)
             => phase' = IF Geq(absRelSeen, thresholdDeg) THEN "bent" ELSE "neutral")
       /\ (DetectStep /\ phase = "neutral"
             => reps' = reps /\ lastPeakTs' = lastPeakTs)]_vars

\* a rep was counted and a further tick inside the band left it at that
C5_Witness ==
    /\ lastEvent = "idle"
    /\ InBand(absRelNow)
    /\ reps = 1
    /\ lastRepTs >= 0
    /\ now > lastRepTs
    /\ running

\* C6: a tick with hysteresisDeg < absRel < thresholdDeg changes neither phase
\* nor reps nor lastPeakTs, in either phase.
C6_ChatterRejection ==
    [][(DetectStep /\ absRelSeen # NaN
          /\ hysteresisDeg < absRelSeen /\ absRelSeen < thresholdDeg)
         => UNCHANGED << phase, reps, lastPeakTs >>]_vars

\* a tick in Bent has just seen an angle inside the gap
C6_Witness ==
    /\ lastEvent = "hold"
    /\ phase = "bent"
    /\ InGap(absRelNow)
    /\ running

\* C7: after a counted rep (none reset since: reps > 0), a tick less than
\* minRepMs later counts nothing, whatever bend-and-return cycle it completes;
\* the return tick of such a cycle ends the cycle in Neutral.
C7_DebounceSuppression ==
    [][(TickStep /\ reps > 0 /\ lastRepTs >= 0 /\ now' - lastRepTs < minRepMs)
         => /\ reps' = reps
            /\ lastRepTs' = lastRepTs
            /\ (tickDetects(variant, running) /\ phase = "bent"
                  /\ InBand(absRelSeen)
                  => lastEvent' = "drop" /\ phase' = "neutral")]_vars

\* two reps were counted and a third cycle, returning less than minRepMs after
\* the second, was not
C7_Witness ==
    /\ lastEvent = "drop"
    /\ reps = 2
    /\ lastRepTs >= 0
    /\ now - lastRepTs < minRepMs
    /\ now > lastRepTs

\* C8: two consecutively counted reps are at least minRepMs apart, whatever
\* stop, start, reset or back-to-selection comes between them.
C8_MinSpacingAlways ==
    [][(CountStep /\ lastRepTs >= 0) => now' - lastRepTs >= minRepMs]_vars

\* C9: reset sets reps = 0 and phase = neutral and leaves goal, thresholdDeg,
\* neutralAngleDeg, filteredAngleDeg and running as they were (hysteresisDeg
\* is a constant).
C9_ResetFrame ==
    [][ResetClick
         => /\ reps' = 0
            /\ phase' = "neutral"
            /\ UNCHANGED << goal, thresholdDeg, neutralAngleDeg, filteredAngleDeg,
                            running >>]_vars

\* a session with a calibrated baseline and a counted rep has been reset
C9_Witness ==
    /\ lastEvent = "count"
    /\ reps = 0
    /\ page = "exercise"
    /\ running
    /\ neutralAngleDeg # 0

\* the engine state
engine == << running, reps, goal, neutralAngleDeg, filteredAngleDeg, thresholdDeg,
             phase, lastPeakTs >>

\* C10: reset ; reset = reset.  The session a reset leaves is a fixed point of
\* reset (reps = 0, phase = neutral), and a reset taken from such a session
\* changes nothing of the engine state, the baseline included.
C10_ResetIdempotent ==
    [][ResetClick
         => /\ resetSession(variant, Session') = Session'
            /\ reps' = 0 /\ phase' = "neutral"
            /\ (resetSession(variant, Session) = Session => UNCHANGED engine)]_vars

\* a bent limb has been reset to neutral
C10_Witness ==
    /\ variant = "part_000"
    /\ lastEvent = "bend"
    /\ phase = "neutral"
    /\ reps = 0
    /\ lastPeakTs = 0

\* C11: a goal change mid-session (target input change, or start click
\* re-reading the target) does not reset reps and leaves
\* reps = min(reps before the change, new goal).
C11_GoalChangeClampsReps ==
    [][((\E v \in TargetInputs : TargetChange(v)) \/ StartClick)
         => reps' = Min(reps, goal')]_vars

\* C12: in every reachable state, the initial one included, goal is in
\* [1, 200] and thresholdDeg is in [10, 60], whatever the inputs hold.
C12_ConfigClamped ==
    /\ MinGoal <= goal /\ goal <= MaxGoal
    /\ MinThreshold <= thresholdDeg /\ thresholdDeg <= MaxThreshold

\* C13: on every tick that executes processAngle, hysteresisDeg < thresholdDeg.
C13_HysteresisBelowThreshold ==
    [][DetectStep => hysteresisDeg < thresholdDeg]_vars

\* processAngle has run in a session whose threshold input holds a value
\* below hysteresisDeg
C13_Witness ==
    /\ running
    /\ lastEvent = "idle"
    /\ frames > 0
    /\ thresholdValue < hysteresisDeg
    /\ thresholdValue # 0
    /\ thresholdDeg = MinThreshold

\* the orientation cache holds a finite reading
OrientationUsable == latestOrientation.has /\ IsFinite(latestOrientation.beta)
\* no reading in either cache
NoReading == ~latestOrientation.has /\ ~latestAccel.has

\* C14 as stated: for finite beta in [-540, 540] estimateTiltDeg returns a value
\* congruent to beta modulo 360 inside (-180, 180]; beta = -180 yields 180.
C14_WrapHalfOpen ==
    (resolved # Null /\ OrientationUsable)
      => /\ (resolved - latestOrientation.beta) % 360 = 0
         /\ -180 < resolved /\ resolved <= 180

\* C14 amended: for finite beta in [-540, 540] estimateTiltDeg returns a value
\* congruent to beta modulo 360 inside the closed interval [-180, 180];
\* beta = -180 and beta = -540 yield -180, beta = 180 and beta = 540 yield 180.
C14_WrapClosed ==
    (resolved # Null /\ OrientationUsable)
      => /\ (resolved - latestOrientation.beta) % 360 = 0
         /\ -180 <= resolved /\ resolved <= 180
         /\ (latestOrientation.beta \in {-180, -540} => resolved = -180)
         /\ (latestOrientation.beta \in {180, 540} => resolved = 180)

\* beta = -540 has been wrapped
C14_Witness ==
    /\ OrientationUsable
    /\ latestOrientation.beta = -540
    /\ resolved = -180

\* C15: estimateTiltDeg uses the orientation reading whenever one has been
\* received with a finite beta, whatever the acceleration cache holds;
\* otherwise atan2(y, z) in degrees of a received acceleration reading (45 for
\* y = 1, z = 1); otherwise 0.
C15_FallbackOrder ==
    resolved # Null
      => /\ (OrientationUsable
               => resolved = estimateTiltDeg(latestOrientation,
                                             [y |-> 0, z |-> 0, has |-> FALSE]))
         /\ (~OrientationUsable /\ latestAccel.has
               => resolved = Atan2Deg(latestAccel.y, latestAccel.z))
         /\ (~OrientationUsable /\ latestAccel.has
               /\ latestAccel.y = 1 /\ latestAccel.z = 1
               => resolved = 45)
         /\ (~OrientationUsable /\ ~latestAccel.has => resolved = 0)

\* the acceleration reading (1, 1) resolved with no orientation ever received
C15_Witness ==
    /\ ~latestOrientation.has
    /\ latestAccel = [y |-> 1, z |-> 1, has |-> TRUE]
    /\ resolved = 45

\* C16: with no reading received from either source, the result of angle
\* resolution differs from the result for a genuine reading of 0 degrees.
C16_NoSignalDistinguishable ==
    (resolved # Null /\ NoReading)
      => resolved # estimateTiltDeg([beta |-> 0, has |-> TRUE], latestAccel)

\* C17: after any sensor event, invalid ones included, each cache holds a
\* finite reading if it holds one at all, and filteredAngleDeg is finite.
C17_InvalidSamplesDropped ==
    /\ latestOrientation.has => IsFinite(latestOrientation.beta)
    /\ latestAccel.has => IsFinite(latestAccel.y) /\ IsFinite(latestAccel.z)
    /\ IsFinite(filteredAngleDeg)

\* C18: every tick, running or not, applies the filter once to the resolved
\* angle.
C18_FilterEveryTick ==
    [][TickStep
         => filteredAngleDeg' =
              lowPassFilter(filteredAngleDeg,
                            estimateTiltDeg(latestOrientation, latestAccel),
                            alphaNum, alphaDen)]_vars

\* C19: at no time are two calibration windows collecting at once.
C19_SingleWindow == Len(calWindows) <= 1

\* a collect() call that runs the branch assigning neutralAngleDeg
CalWrites ==
    \E i \in 1..Len(calWindows) :
        CalibrateCollect(i) /\ calWindows[i].collected + 1 >= sampleCount
\* a cache holds a finite reading
HasValidReading ==
    \/ OrientationUsable
    \/ latestAccel.has /\ IsFinite(latestAccel.y) /\ IsFinite(latestAccel.z)

\* C20: a calibration whose window saw no valid sensor sample reports failure
\* and does not assign neutralAngleDeg.
C20_NoWriteWithoutSignal ==
    [][CalWrites => HasValidReading]_vars

\* C21: the calibration baseline does not survive leaving the exercise: when an
\* exercise is started from the selection page, neutralAngleDeg is 0.
C21_BaselineResetByNavigation ==
    [][StartExerciseClick => neutralAngleDeg' = 0]_vars

\* C23: the rep-completed effects (stats, tiles or painting, sound) run only on
\* a tick that raises reps by one; a tick that leaves reps as it was, at the
\* goal included, runs none of them.
C23_EffectsOnlyOnIncrement ==
    [][DetectStep => (lastEvent' = "count" <=> reps' = reps + 1)]_vars

\* C24: the session starts in neutral, phase is always neutral or bent, and a
\* detecting tick in neutral enters bent exactly when |relative| >= thresholdDeg,
\* leaving reps and lastPeakTs as they were.
C24_NeutralToBent ==
    /\ phase = "neutral"
    /\ [][/\ phase' \in {"neutral", "bent"}
          /\ (DetectStep /\ phase = "neutral")
               => /\ phase' = "bent" <=> Geq(absRelSeen, thresholdDeg)
                  /\ reps' = reps
                  /\ lastPeakTs' = lastPeakTs]_vars

\* a second bend has been entered with one rep on the counter
C24_Witness == lastEvent = "bend" /\ phase = "bent" /\ reps = 1 /\ lastPeakTs > 0

\* C25: with lastPeakTs = 0 and no rep counted yet, the return tick of the first
\* bend counts nothing when its timestamp is below minRepMs and counts the rep
\* when it is minRepMs or more.
C25_FirstRepDebounce ==
    [][(DetectStep /\ phase = "bent" /\ InBand(absRelSeen) /\ lastPeakTs = 0
          /\ reps = 0)
         => /\ now' < minRepMs => reps' = 0 /\ lastEvent' = "drop"
            /\ now' >= minRepMs => reps' = 1 /\ lastEvent' = "count"]_vars

\* the first return came too early and was dropped
C25_Witness ==
    lastEvent = "drop" /\ reps = 0 /\ lastPeakTs = 0 /\ now < minRepMs

\* a tick that resolves an angle
ResolvingTick == TickStep /\ tickFilters(variant, running)

\* C27: every tick that resolves an angle finds in the cache the latest sample
\* the host delivered, whatever events, ticks, stops and starts came before;
\* a sample delivered while the session is stopped is there for the first tick
\* after the start.
C27_LastValueWins ==
    [][(ResolvingTick /\ delivered # Null)
         => latestOrientation = [beta |-> delivered, has |-> TRUE]]_vars

\* x is a number between a and b, ends included
Between(x, a, b) ==
    IsFinite(x) /\ IsFinite(a) /\ IsFinite(b) /\ Min(a, b) <= x /\ x <= Max(a, b)

\* C28: a filter step returns a value between the previous filtered angle and
\* the raw angle, ends included, so filteredAngleDeg never overshoots and,
\* starting from 0, stays within [-180, 180].
C28_FilterBounded ==
    [][ResolvingTick
         => /\ Between(filteredAngleDeg', filteredAngleDeg,
                       estimateTiltDeg(latestOrientation, latestAccel))
            /\ Between(filteredAngleDeg', -180, 180)]_vars

\* the collect() call that takes the last sample of the window
LastCollect == CalibrateCollect(1) /\ calWindows[1].collected + 1 = sampleCount

\* C26: a calibration window running alone assigns neutralAngleDeg once, with
\* its 24th sample, to the mean of the 24 samples; the click and the first 23
\* samples leave neutralAngleDeg alone.  In script.js the click assigns the
\* filtered angle at once.
C26_WindowAssignsMean ==
    [][/\ LastCollect
            => /\ neutralAngleDeg' =
                    RoundDiv(calWindows[1].sum
                               + estimateTiltDeg(latestOrientation, latestAccel),
                             sampleCount)
               /\ calWindows' = << >>
       /\ CalibrateClick
            => /\ neutralAngleDeg' = neutralAngleDeg
               /\ calWindows'[1].collected = 1
       /\ (CalibrateCollect(1) /\ ~LastCollect)
            => /\ neutralAngleDeg' = neutralAngleDeg
               /\ calWindows'[1].collected = calWindows[1].collected + 1
       /\ (CalibrateInstant /\ variant = "script_2")
            => neutralAngleDeg' = filteredAngleDeg
       /\ neutralAngleDeg' # neutralAngleDeg
            => LastCollect \/ CalibrateInstant]_vars

\* a window has finished on 13 samples of 180 and 11 of -180
C26_Witness == windowed(variant) /\ calWindows = << >> /\ neutralAngleDeg = 15

\* a sensor event that its handler stores
AcceptedEvent ==
    \/ \E beta \in MotionBetas :
         OnOrientation(beta) /\ orientationAccepted(variant, running, beta)
    \/ \E accG \in AccelSamples :
         OnMotion(accG) /\ motionAccepted(variant, running, accG)

\* C22: every stored sensor event sets the signal-active flag; the flag is
\* false once the latest event is more than motionTimeoutMs old and a poll of
\* the interval has passed; starting, stopping and leaving the exercise never
\* change the flag.
C22_SignalActiveFlag ==
    [][/\ AcceptedEvent => motionActive'
       /\ motionActive' => clock' - lastMotionTime' <= motionTimeoutMs + motionPollMs
       /\ (StartClick \/ StopClick \/ BackToSelectionClick)
            => motionActive' = motionActive]_vars

\* a processAngle call that runs playBeatAndCalcBPM
BeatStep == BeatSample /\ lastEvent' = "count"

\* C29: a beat plays sound1 when the resulting reps is odd and sound2 when it
\* is even, so no two consecutive beats without a reset between them play the
\* same sound.
C29_AlternatingBeats ==
    [][BeatStep
         => /\ lastSound' = IF reps' % 2 = 1 THEN "sound1" ELSE "sound2"
            /\ lastSound' # lastSound]_vars

\* C30: batchStartTime is written only by the rep that makes reps = 1 mod 30,
\* latestBPM only by the rep that makes reps a positive multiple of 30, once
\* per batch; reset and back-to-selection set both to 0.
C30_BpmBatching ==
    [][/\ (ResetClick \/ BackToSelectionClick)
            => batchStartTime' = 0 /\ latestBPM' = 0
       /\ (batchStartTime' # batchStartTime /\ ~(ResetClick \/ BackToSelectionClick))
            => BeatStep /\ reps' = reps + 1 /\ reps' % repsInBatch = 1
       /\ (latestBPM' # latestBPM /\ ~(ResetClick \/ BackToSelectionClick))
            => BeatStep /\ reps' = reps + 1 /\ reps' % repsInBatch = 0]_vars

\* C31: in the second engine of script.js the image index is in 0..20; for
\* goal <= 20 it is min(reps, goal); for goal > 20 it is 20 exactly when
\* reps >= goal and reps mod 20 otherwise; the progress text reads Complete
\* exactly when reps >= goal.
C31_PaintingProgress ==
    variant = "script_2"
      => /\ paintingIndex \in 0..20
         /\ goal <= 20 => paintingIndex = Min(reps, goal)
         /\ goal > 20 => /\ paintingIndex = 20 <=> reps >= goal
                         /\ reps < goal => paintingIndex = reps % 20
         /\ paintingComplete <=> reps >= goal

\* the second cycle through the images of a goal of 50
C31_Witness ==
    variant = "script_2" /\ goal = 50 /\ reps = 25 /\ paintingIndex = 5

\* the detector's part of the session
counting == << reps, phase, lastPeakTs >>

\* C32: while the session is stopped no step but reset and back-to-selection
\* changes reps, phase or lastPeakTs, ticks and sensor events included; stop and
\* start leave reps, phase, lastPeakTs and neutralAngleDeg as they were, so a
\* session stopped in bent resumes in bent.
C32_StopStartFrame ==
    [][/\ (~running /\ ~(ResetClick \/ BackToSelectionClick))
            => UNCHANGED counting
       /\ (StartClick \/ StopClick)
            => UNCHANGED << counting, neutralAngleDeg >>]_vars

\* a session stopped in the middle of its second bend
C32_Witness == ~running /\ phase = "bent" /\ reps = 1 /\ lastEvent = "bend"

\* a reset of the session, by the reset button or by leaving the exercise
SessionReset == ResetClick \/ BackToSelectionClick

\* C33: lastPeakTs is written only by a tick that counts a rep, to the
\* timestamp of that tick, or by a reset of the session, to 0, in the engines
\* whose reset writes it; it never exceeds the timestamp of the latest tick.
C33_LastPeakDiscipline ==
    /\ lastPeakTs <= now
    /\ [][/\ lastPeakTs' # lastPeakTs
               => \/ CountStep
                  \/ SessionReset /\ variant # "script_2"
          /\ CountStep => lastPeakTs' = now'
          /\ (SessionReset /\ variant # "script_2") => lastPeakTs' = 0
          /\ lastPeakTs' <= now']_vars

\* a second rep has just been counted
C33_Witness == lastEvent = "count" /\ reps = 2 /\ lastPeakTs = now /\ now > 0

\* C34: the step that completes a calibration writes neutralAngleDeg only:
\* reps, phase, lastPeakTs, goal, thresholdDeg and filteredAngleDeg are as
\* before, and no rep is counted by it.
C34_CalibrationFrame ==
    [][(LastCollect \/ CalibrateInstant)
         => UNCHANGED << reps, phase, lastPeakTs, goal, thresholdDeg,
                         filteredAngleDeg, running, lastEvent >>]_vars

\* the second script.js engine, calibrated in the middle of a bend
C34_Witness ==
    /\ variant = "script_2"
    /\ phase = "bent"
    /\ neutralAngleDeg # 0
    /\ neutralAngleDeg = filteredAngleDeg

\* the angle estimateTiltDeg() resolves from the caches as they are
resolvedNow == estimateTiltDeg(latestOrientation, latestAccel)

\* C35: the has flags of the two caches are never cleared once set; once the
\* orientation cache holds a finite beta it keeps one until an orientation
\* event with a non-finite beta is stored, and until then no acceleration
\* event changes the resolved angle.
C35_StickySource ==
    [][/\ latestOrientation.has => latestOrientation'.has
       /\ latestAccel.has => latestAccel'.has
       /\ (OrientationUsable /\ ~OrientationUsable')
            => \E beta \in SignalBetas :
                 DeliverOrientation(beta) /\ IsNumber(beta) /\ ~IsFinite(beta)
       /\ (OrientationUsable /\ \E accG \in AccelSamples : OnMotion(accG))
            => resolvedNow' = resolvedNow]_vars

\* both caches hold a reading and the frame loop has followed the orientation
C35_Witness ==
    /\ latestOrientation = [beta |-> -90, has |-> TRUE]
    /\ latestAccel = [y |-> 1, z |-> 1, has |-> TRUE]
    /\ filteredAngleDeg < 0
    /\ frames >= 2

====
